---- MODULE Spec2Model ----
(***************************************************************************)
(* Model of custom_components/octopus_energy/api_client.py:                *)
(* OctopusEnergyApiClient, its rate normaliser, its day/night filter, its  *)
(* consumption filter and the request/response flow of its operations.     *)
(*                                                                         *)
(* Time is counted in seconds.  A timestamp string of the server is a      *)
(* record  [k, wall, off]:  k = "str" for "YYYY-MM-DDTHH:MM:SS<offset>"    *)
(* with wall the wall-clock seconds written in it and off its UTC offset,  *)
(* k = "null" for a JSON null and k = "absent" for a key that is missing.  *)
(* A datetime of the program is the integer number of seconds of its UTC   *)
(* instant.                                                                *)
(***************************************************************************)
EXTENDS Integers, Sequences, FiniteSets, TLC

VARIABLES
  op,                    \* the public operation that was called
  pc,                    \* position of the call
  period_from,           \* argument period_from (UTC instant)
  period_to,             \* argument period_to (UTC instant)
  data,                  \* decoded body handed to the normaliser / consumption loop
  items,                 \* __process_electricity_rates: data["results"] after the sort
  idx,                   \* index of the record / rate a for loop is at
  starting_period_from,  \* __process_electricity_rates: the running cursor
  valid_from,            \* __process_electricity_rates: local valid_from
  target_date,           \* __process_electricity_rates: local target_date
  results,               \* the list being accumulated
  rates,                 \* day_rates / night_rates being filtered
  sent,                  \* requests sent so far, in order
  received,              \* responses read so far, in order
  outcome,               \* how the call ended: none, return (value) or raise (url)
  filterLog,             \* one entry per __is_between_local_times call
  tz,                    \* the local time zone: offsets before and after its switch
  nowPast                \* whether now() is past the switch of the time zone

vars == << op, pc, period_from, period_to, data, items, idx, starting_period_from,
           valid_from, target_date, results, rates, sent, received, outcome,
           filterLog, tz, nowPast >>

----------------------------------------------------------------------------
(* Bounds of the model *)

MaxItems == 2

----------------------------------------------------------------------------
(* Program constants *)

\* timedelta(minutes=30), in seconds
ThirtyMinutes == 1800
\* "07:00:00", "23:59:59" and "00:00:00" of the day/night filter, in seconds
DayFromTime == 25200
DayToTime == 86399
NightFromTime == 0
NightToTime == 25200
\* response.status >= 500
ServerErrorStatus == 500

SecondsPerHour == 60 * 60
SecondsPerDay == 24 * SecondsPerHour

TariffCode == "E-2R-SUPER-GREEN-24M-21-07-30-A"

----------------------------------------------------------------------------
(* Timestamps *)

Absent == [k |-> "absent", wall |-> 0, off |-> 0]
NullV == [k |-> "null", wall |-> 0, off |-> 0]
Str(w, o) == [k |-> "str", wall |-> w, off |-> o]

\* "valid_from" in item and item["valid_from"] != None
Present(ts) == ts.k = "str"

\* as_utc(parse_datetime(s)): the instant a timestamp string denotes
ParseUtc(ts) == ts.wall - ts.off

\* Python's < on two timestamp strings of the same layout: the date and time
\* characters first, then the offset suffix ("+01:00" sorts before "Z").
SuffixRank(o) == IF o = 0 THEN 1 ELSE 0
StrLess(a, b) ==
  \/ a.wall < b.wall
  \/ a.wall = b.wall /\ SuffixRank(a.off) < SuffixRank(b.off)

----------------------------------------------------------------------------
(* Sequences *)

RECURSIVE SeqsUpTo(_, _)
SeqsUpTo(S, n) ==
  IF n = 0 THEN { << >> }
  ELSE LET shorter == SeqsUpTo(S, n - 1)
       IN shorter \cup { Append(s, x) : s \in { t \in shorter : Len(t) = n - 1 }, x \in S }

----------------------------------------------------------------------------
(* __process_electricity_rates *)

\* items.sort(key=self.__get_valid_from) raises: KeyError when a record has no
\* valid_from key, TypeError when a null key is compared (two records or more).
SortRaises(its) ==
  \/ \E i \in 1..Len(its) : its[i].valid_from.k = "absent"
  \/ Len(its) >= 2 /\ \E i \in 1..Len(its) : its[i].valid_from.k = "null"

\* __get_valid_from as the sort key of the raw records: the strings are compared
ValidFromLess(a, b) == StrLess(a.valid_from, b.valid_from)

\* items.sort(key=self.__get_valid_from): list.sort is stable
RECURSIVE InsertByValidFrom(_, _)
InsertByValidFrom(s, x) ==
  IF s = << >> THEN << x >>
  ELSE IF ValidFromLess(x, s[Len(s)])
       THEN Append(InsertByValidFrom(SubSeq(s, 1, Len(s) - 1), x), s[Len(s)])
       ELSE Append(s, x)

RECURSIVE SortedByValidFrom(_)
SortedByValidFrom(its) ==
  IF its = << >> THEN << >>
  ELSE InsertByValidFrom(SortedByValidFrom(SubSeq(its, 1, Len(its) - 1)), its[Len(its)])

\* lines 367-375
ResolveValidFromUnclamped(item, cursor) ==
  IF Present(item.valid_from) THEN ParseUtc(item.valid_from) ELSE cursor

ResolveValidFrom(item, cursor) ==
  IF Present(item.valid_from)
  THEN IF ParseUtc(item.valid_from) < cursor THEN cursor ELSE ParseUtc(item.valid_from)
  ELSE cursor

\* lines 378-385
ResolveTargetDateUncapped(item, pto) ==
  IF Present(item.valid_to) THEN ParseUtc(item.valid_to) ELSE pto

ResolveTargetDate(item, pto) ==
  IF Present(item.valid_to)
  THEN IF ParseUtc(item.valid_to) > pto THEN pto ELSE ParseUtc(item.valid_to)
  ELSE pto

\* lines 388-395: the interval appended by one turn of the while loop
Interval(item, vfrom, tariff) ==
  [ value_exc_vat |-> item.value_exc_vat,
    value_inc_vat |-> item.value_inc_vat,
    valid_from |-> vfrom,
    valid_to |-> vfrom + ThirtyMinutes,
    tariff_code |-> tariff ]

\* lines 387-398: the while loop of one record, from vfrom
RECURSIVE EmitIntervals(_, _, _, _)
EmitIntervals(item, vfrom, target, tariff) ==
  IF vfrom < target
  THEN << Interval(item, vfrom, tariff) >> \o EmitIntervals(item, vfrom + ThirtyMinutes, target, tariff)
  ELSE << >>

\* lines 363-398: the for loop from record i on, with the cursor at `cursor`
RECURSIVE ProcessItems(_, _, _, _, _)
ProcessItems(its, i, cursor, pto, tariff) ==
  IF i > Len(its) THEN << >>
  ELSE LET emitted == EmitIntervals(its[i], ResolveValidFrom(its[i], cursor),
                                    ResolveTargetDate(its[i], pto), tariff)
           next == IF emitted = << >> THEN cursor ELSE emitted[Len(emitted)].valid_to
       IN emitted \o ProcessItems(its, i + 1, next, pto, tariff)

\* lines 353-400 as one function: raised, or the list returned
ProcessElectricityRates(d, pfrom, pto, tariff) ==
  IF ~d.has_results THEN [raised |-> FALSE, results |-> << >>]
  ELSE IF SortRaises(d.results) THEN [raised |-> TRUE, results |-> << >>]
  ELSE [raised |-> FALSE,
        results |-> ProcessItems(SortedByValidFrom(d.results), 1, pfrom, pto, tariff)]

----------------------------------------------------------------------------
(* The normaliser step by step *)

NoOutcome == [kind |-> "none", value |-> [type |-> "None", list |-> << >>], url |-> "none"]
NoTz == [before |-> 0, after |-> 0]

RateFromValues ==
  { Absent, NullV, Str(0, 0), Str(1800, 0), Str(2700, 0), Str(5400, 3600) }
RateToValues ==
  { Absent, NullV, Str(1800, 0), Str(3600, 0), Str(4500, 0) }
RateRecords ==
  [ valid_from : RateFromValues, valid_to : RateToValues,
    value_exc_vat : {10}, value_inc_vat : {11} ]
RateData ==
  { [has_results |-> FALSE, results |-> << >>] }
    \cup { [has_results |-> TRUE, results |-> s] : s \in SeqsUpTo(RateRecords, MaxItems) }
PeriodFroms == { 0, 900, 1800 }
PeriodTos == { 3600, 4500 }

\* lines 355-356: the state on entry to the function
InitRates ==
  /\ op = "process_electricity_rates"
  /\ pc = "proc_begin"
  /\ period_from \in PeriodFroms
  /\ period_to \in PeriodTos
  /\ data \in RateData
  /\ items = << >>
  /\ idx = 0
  /\ starting_period_from = period_from
  /\ valid_from = period_from
  /\ target_date = period_to
  /\ results = << >>
  /\ rates = << >>
  /\ sent = << >>
  /\ received = << >>
  /\ outcome = NoOutcome
  /\ filterLog = << >>
  /\ tz = NoTz
  /\ nowPast = FALSE

\* lines 357-359
ProcessBegin ==
  /\ pc = "proc_begin"
  /\ IF ~data.has_results
     THEN pc' = "proc_done" /\ UNCHANGED items
     ELSE IF SortRaises(data.results)
     THEN pc' = "proc_raised" /\ UNCHANGED items
     ELSE pc' = "proc_for" /\ items' = SortedByValidFrom(data.results)
  /\ idx' = 1
  /\ UNCHANGED << op, period_from, period_to, data, starting_period_from, valid_from,
                  target_date, results, rates, sent, received, outcome, filterLog,
                  tz, nowPast >>

\* lines 363-385: take the next record and resolve valid_from and target_date
ProcessNextItem ==
  /\ pc = "proc_for"
  /\ idx <= Len(items)
  /\ valid_from' = ResolveValidFrom(items[idx], starting_period_from)
  /\ target_date' = ResolveTargetDate(items[idx], period_to)
  /\ pc' = "proc_while"
  /\ UNCHANGED << op, period_from, period_to, data, items, idx, starting_period_from,
                  results, rates, sent, received, outcome, filterLog, tz, nowPast >>

\* lines 387-398: one turn of the while loop
ProcessEmit ==
  /\ pc = "proc_while"
  /\ valid_from < target_date
  /\ results' = Append(results, Interval(items[idx], valid_from, TariffCode))
  /\ valid_from' = valid_from + ThirtyMinutes
  /\ starting_period_from' = valid_from + ThirtyMinutes
  /\ UNCHANGED << op, pc, period_from, period_to, data, items, idx, target_date,
                  rates, sent, received, outcome, filterLog, tz, nowPast >>

\* line 387, the while condition false: on to the next record
ProcessEndWhile ==
  /\ pc = "proc_while"
  /\ ~(valid_from < target_date)
  /\ idx' = idx + 1
  /\ pc' = "proc_for"
  /\ UNCHANGED << op, period_from, period_to, data, items, starting_period_from,
                  valid_from, target_date, results, rates, sent, received, outcome,
                  filterLog, tz, nowPast >>

\* line 400
ProcessReturn ==
  /\ pc = "proc_for"
  /\ idx > Len(items)
  /\ pc' = "proc_done"
  /\ UNCHANGED << op, period_from, period_to, data, items, idx, starting_period_from,
                  valid_from, target_date, results, rates, sent, received, outcome,
                  filterLog, tz, nowPast >>

NextRates ==
  \/ ProcessBegin
  \/ ProcessNextItem
  \/ ProcessEmit
  \/ ProcessEndWhile
  \/ ProcessReturn

SpecRates == InitRates /\ [][NextRates]_vars

----------------------------------------------------------------------------
(* Properties of the normaliser *)

IsThirtyMinutes(r) == r.valid_to = r.valid_from + ThirtyMinutes

NoOverlap(rs) ==
  \A i, j \in 1..Len(rs) :
    i < j => (rs[i].valid_to <= rs[j].valid_from \/ rs[j].valid_to <= rs[i].valid_from)

\* rs are 30-minute intervals, pairwise disjoint, whose union is exactly [a, b)
ExactCover(rs, a, b) ==
  /\ \A i \in 1..Len(rs) :
       IsThirtyMinutes(rs[i]) /\ a <= rs[i].valid_from /\ rs[i].valid_to <= b
  /\ NoOverlap(rs)
  /\ Len(rs) * ThirtyMinutes = b - a

WindowAligned == (period_to - period_from) % ThirtyMinutes = 0

\* the order the sort left the records in is the order of their instants
SortedChronologically(its) ==
  \A i, j \in 1..Len(its) :
    (i < j /\ Present(its[i].valid_from) /\ Present(its[j].valid_from))
      => ParseUtc(its[i].valid_from) <= ParseUtc(its[j].valid_from)

\* instant p lies in the validity range of some record (a missing end is open)
CoversPoint(its, p) ==
  \E i \in 1..Len(its) :
    /\ Present(its[i].valid_from) => ParseUtc(its[i].valid_from) <= p
    /\ Present(its[i].valid_to) => p < ParseUtc(its[i].valid_to)

\* the validity ranges of the records leave no instant of [a, b) out
RecordsCover(its, a, b) ==
  /\ CoversPoint(its, a)
  /\ \A i \in 1..Len(its) :
       (Present(its[i].valid_to) /\ a < ParseUtc(its[i].valid_to)
          /\ ParseUtc(its[i].valid_to) < b)
         => CoversPoint(its, ParseUtc(its[i].valid_to))

C2_Clamping ==
  \A i \in 1..Len(results) :
    results[i].valid_from >= period_from /\ results[i].valid_to <= period_to

\* C10: in every step of __process_electricity_rates the cursor
\* starting_period_from does not decrease, every emitted interval is 30 minutes
\* long, and every emitted interval starts at or after the end of the one
\* emitted before it (so the list is strictly increasing in valid_from).
C10_MonotoneEmission ==
  [][ /\ starting_period_from' >= starting_period_from
      /\ \A i \in 1..Len(results') :
           /\ IsThirtyMinutes(results'[i])
           /\ i > 1 => /\ results'[i].valid_from >= results'[i - 1].valid_to
                       /\ results'[i].valid_from > results'[i - 1].valid_from ]_vars

\* two overlapping records, the second starting before the cursor, have both
\* been processed and intervals were emitted
C10_Witness ==
  /\ pc = "proc_done"
  /\ Len(items) = 2
  /\ Present(items[1].valid_to)
  /\ ParseUtc(items[2].valid_from) < ParseUtc(items[1].valid_to)
  /\ ParseUtc(items[2].valid_from) < starting_period_from
  /\ Len(results) >= 3

----------------------------------------------------------------------------
(* Responses of the server and what the client reads from them *)

MaxConsumption == 3

Statuses == { 200, 404, 500, 503 }

MkBody(kind, d, tobj, t, a, hr, rs) ==
  [ kind |-> kind, data |-> d, token_obj |-> tobj, token |-> t, account |-> a,
    has_results |-> hr, results |-> rs ]

\* a body that json.loads rejects
Malformed == MkBody("malformed", "absent", "absent", "absent", "absent", FALSE, << >>)
\* Python's None, the default of the account path
NoneValue == MkBody("None", "absent", "absent", "absent", "absent", FALSE, << >>)
\* a GraphQL answer: "data", data["obtainKrakenToken"], its ["token"], data["account"]
\* are each absent, null or there
GraphBody(d, tobj, t, a) == MkBody("json", d, tobj, t, a, FALSE, << >>)
\* a REST answer, with or without the "results" key
RestBody(hr, rs) == MkBody("json", "absent", "absent", "absent", "absent", hr, rs)
\* { "results": [] }, the default of the REST paths
DefaultResults == RestBody(TRUE, << >>)

Url(req) ==
  CASE req \in { "token", "account" } -> "/v1/graphql/"
    [] req = "standard_unit_rates" -> "/v1/products/P/electricity-tariffs/T/standard-unit-rates"
    [] req = "day_unit_rates" -> "/v1/products/P/electricity-tariffs/T/day-unit-rates"
    [] req = "night_unit_rates" -> "/v1/products/P/electricity-tariffs/T/night-unit-rates"
    [] req = "electricity_consumption" -> "/v1/electricity-meter-points/M/meters/S/consumption"
    [] req = "gas_unit_rates" -> "/v1/products/P/gas-tariffs/T/standard-unit-rates"
    [] req = "gas_consumption" -> "/v1/gas-meter-points/M/meters/S/consumption"
    [] req = "products" -> "/v1/products"
    [] req = "electricity_standing_charges" -> "/v1/products/P/electricity-tariffs/T/standing-charges"
    [] req = "gas_standing_charges" -> "/v1/products/P/gas-tariffs/T/standing-charges"

\* __async_read_response, lines 402-412: the default on a status >= 500 (the text
\* is not read), else the decoded body, or an Exception naming the url
AsyncReadResponseAbove500(response, url, default_value) ==
  IF response.status > ServerErrorStatus
  THEN [raised |-> FALSE, value |-> default_value, decoded |-> FALSE, url |-> "none"]
  ELSE IF response.body.kind = "json"
  THEN [raised |-> FALSE, value |-> response.body, decoded |-> TRUE, url |-> "none"]
  ELSE [raised |-> TRUE, value |-> default_value, decoded |-> TRUE, url |-> url]

AsyncReadResponseSwallowing(response, url, default_value) ==
  IF response.status >= ServerErrorStatus
  THEN [raised |-> FALSE, value |-> default_value, decoded |-> FALSE, url |-> "none"]
  ELSE IF response.body.kind = "json"
  THEN [raised |-> FALSE, value |-> response.body, decoded |-> TRUE, url |-> "none"]
  ELSE [raised |-> FALSE, value |-> default_value, decoded |-> TRUE, url |-> "none"]

AsyncReadResponse(response, url, default_value) ==
  IF response.status >= ServerErrorStatus
  THEN [raised |-> FALSE, value |-> default_value, decoded |-> FALSE, url |-> "none"]
  ELSE IF response.body.kind = "json"
  THEN [raised |-> FALSE, value |-> response.body, decoded |-> TRUE, url |-> "none"]
  ELSE [raised |-> TRUE, value |-> default_value, decoded |-> TRUE, url |-> url]

\* what `received` keeps of a response that was read
Received(req, response, read) ==
  [ req |-> req, status |-> response.status, body |-> response.body,
    decoded |-> read.decoded ]

\* values an operation returns
RetNone == [type |-> "None", list |-> << >>]
RetList(l) == [type |-> "list", list |-> l]
RetAccount == [type |-> "account", list |-> << >>]
RetCharge(c) == [type |-> "charge", list |-> << c >>]

Returned(v) == [kind |-> "return", value |-> v, url |-> "none"]
\* an exception leaves the operation; url is the URL its message carries, "none"
\* for a KeyError or TypeError, which carries none
Raised(url) == [kind |-> "raise", value |-> RetNone, url |-> url]

----------------------------------------------------------------------------
(* async_get_account *)

\* line 87: token_response_body != None and "data" in token_response_body
HasData(body) == body.kind = "json" /\ body.data # "absent"

\* line 88: token_response_body["data"]["obtainKrakenToken"]["token"] raises
\* TypeError on a null and KeyError on a missing key
TokenLookupRaises(body) ==
  \/ body.data = "null"
  \/ body.token_obj \in { "absent", "null" }
  \/ body.token = "absent"

\* lines 99-123: account_response_body["data"]["account"][...] raises likewise
AccountLookupRaises(body) ==
  \/ body.data = "null"
  \/ body.account \in { "absent", "null" }

TokenBodies ==
  { Malformed,
    GraphBody("absent", "absent", "absent", "absent"),
    GraphBody("null", "absent", "absent", "absent"),
    GraphBody("obj", "absent", "absent", "absent"),
    GraphBody("obj", "null", "absent", "absent"),
    GraphBody("obj", "obj", "absent", "absent"),
    GraphBody("obj", "obj", "null", "absent"),
    GraphBody("obj", "obj", "jwt", "absent") }

AccountBodies ==
  { Malformed,
    GraphBody("absent", "absent", "absent", "absent"),
    GraphBody("null", "absent", "absent", "absent"),
    GraphBody("obj", "absent", "absent", "absent"),
    GraphBody("obj", "absent", "absent", "null"),
    GraphBody("obj", "absent", "absent", "obj") }

Responses(bodies) == [ status : Statuses, body : bodies ]

\* lines 82-85: the token mutation is posted
GetAccountPostToken ==
  /\ pc = "call" /\ op = "async_get_account"
  /\ sent' = Append(sent, "token")
  /\ pc' = "account_token_wait"
  /\ UNCHANGED << op, period_from, period_to, data, items, idx, starting_period_from,
                  valid_from, target_date, results, rates, received, outcome,
                  filterLog, tz, nowPast >>

\* lines 86-93 and 127-130: the token response is read; with a "data" key the
\* token is looked up and the account query is posted
GetAccountTokenResponse ==
  /\ pc = "account_token_wait"
  /\ \E response \in Responses(TokenBodies) :
       LET read == AsyncReadResponse(response, Url("token"), NoneValue)
       IN /\ received' = Append(received, Received("token", response, read))
          /\ IF read.raised
             THEN /\ outcome' = Raised(read.url) /\ pc' = "done" /\ UNCHANGED sent
             ELSE IF ~HasData(read.value)
             THEN /\ outcome' = Returned(RetNone) /\ pc' = "done" /\ UNCHANGED sent
             ELSE IF TokenLookupRaises(read.value)
             THEN /\ outcome' = Raised("none") /\ pc' = "done" /\ UNCHANGED sent
             ELSE /\ sent' = Append(sent, "account")
                  /\ pc' = "account_account_wait"
                  /\ UNCHANGED outcome
  /\ UNCHANGED << op, period_from, period_to, data, items, idx, starting_period_from,
                  valid_from, target_date, results, rates, filterLog, tz, nowPast >>

\* lines 94-130: the account response is read and reshaped
GetAccountAccountResponse ==
  /\ pc = "account_account_wait"
  /\ \E response \in Responses(AccountBodies) :
       LET read == AsyncReadResponse(response, Url("account"), NoneValue)
       IN /\ received' = Append(received, Received("account", response, read))
          /\ outcome' = IF read.raised THEN Raised(read.url)
                        ELSE IF ~HasData(read.value) THEN Returned(RetNone)
                        ELSE IF AccountLookupRaises(read.value) THEN Raised("none")
                        ELSE Returned(RetAccount)
  /\ pc' = "done"
  /\ UNCHANGED << op, period_from, period_to, data, items, idx, starting_period_from,
                  valid_from, target_date, results, rates, sent, filterLog, tz, nowPast >>

----------------------------------------------------------------------------
(* Standard and gas unit rates, and the dispatch of async_get_electricity_rates *)

RateLists == SeqsUpTo(RateRecords, 1)
RateBodies ==
  { Malformed, RestBody(FALSE, << >>) } \cup { RestBody(TRUE, l) : l \in RateLists }

NormaliserUnchanged ==
  UNCHANGED << items, starting_period_from, valid_from, target_date >>

\* lines 189-198: tariff_parts["rate"].startswith("1") picks the standard rates,
\* anything else the day and night rates; the request of the one picked is sent
\* (lines 135-138, 151-154)
GetElectricityRatesDispatch ==
  /\ pc = "call" /\ op = "async_get_electricity_rates"
  /\ \E rate_starts_with_1 \in BOOLEAN :
       IF rate_starts_with_1
       THEN sent' = Append(sent, "standard_unit_rates") /\ pc' = "standard_wait"
       ELSE sent' = Append(sent, "day_unit_rates") /\ pc' = "day_wait"
  /\ NormaliserUnchanged
  /\ UNCHANGED << op, period_from, period_to, data, idx, results, rates, received,
                  outcome, filterLog, tz, nowPast >>

\* lines 134-138
GetStandardRatesSend ==
  /\ pc = "call" /\ op = "async_get_electricity_standard_rates"
  /\ sent' = Append(sent, "standard_unit_rates")
  /\ pc' = "standard_wait"
  /\ NormaliserUnchanged
  /\ UNCHANGED << op, period_from, period_to, data, idx, results, rates, received,
                  outcome, filterLog, tz, nowPast >>

\* lines 230-234
GetGasRatesSend ==
  /\ pc = "call" /\ op = "async_get_gas_rates"
  /\ sent' = Append(sent, "gas_unit_rates")
  /\ pc' = "gas_wait"
  /\ NormaliserUnchanged
  /\ UNCHANGED << op, period_from, period_to, data, idx, results, rates, received,
                  outcome, filterLog, tz, nowPast >>

\* lines 139-146 and 235-242: read the response, normalise, return; an exception
\* of either is logged and raised again
RatesResponse(req) ==
  \E response \in Responses(RateBodies) :
    LET read == AsyncReadResponse(response, Url(req), DefaultResults)
        processed == ProcessElectricityRates(read.value, period_from, period_to, TariffCode)
    IN /\ received' = Append(received, Received(req, response, read))
       /\ IF read.raised
          THEN outcome' = Raised(read.url) /\ UNCHANGED << data, results >>
          ELSE IF processed.raised
          THEN outcome' = Raised("none") /\ data' = read.value /\ UNCHANGED results
          ELSE /\ outcome' = Returned(RetList(processed.results))
               /\ data' = read.value
               /\ results' = processed.results
       /\ pc' = "done"
       /\ NormaliserUnchanged
       /\ UNCHANGED << op, period_from, period_to, idx, rates, sent, filterLog, tz,
                       nowPast >>

GetStandardRatesResponse == pc = "standard_wait" /\ RatesResponse("standard_unit_rates")

GetGasRatesResponse == pc = "gas_wait" /\ RatesResponse("gas_unit_rates")

----------------------------------------------------------------------------
(* async_get_electricity_day_night_rates *)

\* the local time zone switches its offset at 01:00 UTC of the second day
TzSwitch == SecondsPerDay + SecondsPerHour
TzChoices == [ before : { 0, SecondsPerHour }, after : { 0, SecondsPerHour } ]

\* as_local(t): the UTC offset in force at instant t
LocalOffset(t) == IF t < TzSwitch THEN tz.before ELSE tz.after
\* now().strftime('%z'): the UTC offset in force now
NowOffset == IF nowPast THEN tz.after ELSE tz.before

\* lines 331-344 with the bounds built without the offset of now()
IsBetweenLocalTimesNoOffset(rate, target_from_time, target_to_time) ==
  LET local_date == (rate.valid_from + LocalOffset(rate.valid_from)) \div SecondsPerDay
      from_date_time == local_date * SecondsPerDay + target_from_time
      to_date_time == local_date * SecondsPerDay + target_to_time
  IN rate.valid_from >= from_date_time /\ rate.valid_from < to_date_time

\* lines 331-344: the rate's local date, the target times written with the offset
\* of now(), compared as instants
IsBetweenLocalTimes(rate, target_from_time, target_to_time) ==
  LET local_date == (rate.valid_from + LocalOffset(rate.valid_from)) \div SecondsPerDay
      from_date_time == local_date * SecondsPerDay + target_from_time - NowOffset
      to_date_time == local_date * SecondsPerDay + target_to_time - NowOffset
  IN rate.valid_from >= from_date_time /\ rate.valid_from < to_date_time

\* __get_valid_from as the sort key of the intervals
RateLess(a, b) == a.valid_from < b.valid_from

RECURSIVE InsertRate(_, _)
InsertRate(s, x) ==
  IF s = << >> THEN << x >>
  ELSE IF RateLess(x, s[Len(s)])
       THEN Append(InsertRate(SubSeq(s, 1, Len(s) - 1), x), s[Len(s)])
       ELSE Append(s, x)

RECURSIVE SortRatesRec(_)
SortRatesRec(rs) ==
  IF rs = << >> THEN << >>
  ELSE InsertRate(SortRatesRec(SubSeq(rs, 1, Len(rs) - 1)), rs[Len(rs)])

\* the sort of line 184 left out
SortRatesMissing(rs) == rs

\* line 184: results.sort(key=self.__get_valid_from)
SortRates(rs) == SortRatesRec(rs)

Hour(h) == h * SecondsPerHour
HalfHour(h) == h * SecondsPerHour + ThirtyMinutes
Utc(day, t) == Str(day * SecondsPerDay + t, 0)
DnRecord(f, t) ==
  [ valid_from |-> f, valid_to |-> t, value_exc_vat |-> 10, value_inc_vat |-> 11 ]

\* records around 07:00 and around midnight, before and after the switch
DnMorning0 == DnRecord(Utc(0, HalfHour(5)), Utc(0, HalfHour(7)))
DnMidnight0 == DnRecord(Utc(0, HalfHour(22)), Utc(1, HalfHour(0)))
DnMorning1 == DnRecord(Utc(1, HalfHour(5)), Utc(1, HalfHour(7)))
DnEvening1 == DnRecord(Utc(1, HalfHour(22)), NullV)
\* 06:15 to 07:00 UTC of the second day, its start written with +01:00
DnOffGrid1 ==
  DnRecord(Str(SecondsPerDay + Hour(7) + 900, SecondsPerHour), Utc(1, Hour(7)))

DnLists ==
  { << DnMorning0, DnMidnight0 >>, << DnMidnight0, DnMorning1 >>,
    << DnMorning1, DnEvening1 >>, << DnOffGrid1 >> }
DnBodies ==
  { Malformed, RestBody(FALSE, << >>) } \cup { RestBody(TRUE, l) : l \in DnLists }
\* a body sent with a status >= 500 is not looked at
DnResponses ==
  { r \in Responses(DnBodies) :
      r.status >= ServerErrorStatus => r.body = RestBody(TRUE, << DnMorning1, DnEvening1 >>) }

DnFilterPcs == { "day_filter", "night_filter" }
DnPcs == { "day_wait", "night_wait" } \cup DnFilterPcs

\* lines 150-154
GetDayNightRatesSendDay ==
  /\ pc = "call" /\ op = "async_get_electricity_day_night_rates"
  /\ sent' = Append(sent, "day_unit_rates")
  /\ pc' = "day_wait"
  /\ NormaliserUnchanged
  /\ UNCHANGED << op, period_from, period_to, data, idx, results, rates, received,
                  outcome, filterLog, tz, nowPast >>

\* lines 155-160 / 170-175, 164-166 / 179-181: read the response and normalise it
DnResponse(req, filter_pc) ==
  \E response \in DnResponses :
    LET read == AsyncReadResponse(response, Url(req), DefaultResults)
        processed == ProcessElectricityRates(read.value, period_from, period_to, TariffCode)
    IN /\ received' = Append(received, Received(req, response, read))
       /\ IF read.raised
          THEN outcome' = Raised(read.url) /\ pc' = "done" /\ UNCHANGED << data, rates, idx >>
          ELSE IF processed.raised
          THEN /\ outcome' = Raised("none") /\ pc' = "done"
               /\ data' = read.value /\ UNCHANGED << rates, idx >>
          ELSE /\ rates' = processed.results /\ idx' = 1 /\ pc' = filter_pc
               /\ data' = read.value /\ UNCHANGED outcome
       /\ NormaliserUnchanged
       /\ UNCHANGED << op, period_from, period_to, results, sent, filterLog, tz, nowPast >>

\* lines 161-163 / 176-178: one turn of the for loop over the normalised rates
DnFilterStep(kind, from_time, to_time) ==
  /\ idx <= Len(rates)
  /\ LET keep == IsBetweenLocalTimes(rates[idx], from_time, to_time)
     IN /\ results' = IF keep THEN Append(results, rates[idx]) ELSE results
        /\ filterLog' = Append(filterLog,
             [ kind |-> kind, valid_from |-> rates[idx].valid_from,
               now_offset |-> NowOffset, kept |-> keep ])
  /\ idx' = idx + 1
  /\ NormaliserUnchanged
  /\ UNCHANGED << op, pc, period_from, period_to, data, rates, sent, received, outcome,
                  tz, nowPast >>

GetDayNightRatesDayResponse == pc = "day_wait" /\ DnResponse("day_unit_rates", "day_filter")

GetDayNightRatesDayFilter ==
  pc = "day_filter" /\ DnFilterStep("day", DayFromTime, DayToTime)

\* lines 168-169: the day rates are done, the night request is sent
GetDayNightRatesSendNight ==
  /\ pc = "day_filter" /\ idx > Len(rates)
  /\ sent' = Append(sent, "night_unit_rates")
  /\ pc' = "night_wait"
  /\ NormaliserUnchanged
  /\ UNCHANGED << op, period_from, period_to, data, idx, results, rates, received,
                  outcome, filterLog, tz, nowPast >>

GetDayNightRatesNightResponse ==
  pc = "night_wait" /\ DnResponse("night_unit_rates", "night_filter")

GetDayNightRatesNightFilter ==
  pc = "night_filter" /\ DnFilterStep("night", NightFromTime, NightToTime)

\* lines 183-187
GetDayNightRatesReturn ==
  /\ pc = "night_filter" /\ idx > Len(rates)
  /\ results' = SortRates(results)
  /\ outcome' = Returned(RetList(SortRates(results)))
  /\ pc' = "done"
  /\ NormaliserUnchanged
  /\ UNCHANGED << op, period_from, period_to, data, idx, rates, sent, received,
                  filterLog, tz, nowPast >>

\* the clock: while a day/night call runs, now() passes the switch of the zone
ClockPassesSwitch ==
  /\ pc \in DnPcs
  /\ tz.before # tz.after
  /\ ~nowPast
  /\ nowPast' = TRUE
  /\ NormaliserUnchanged
  /\ UNCHANGED << op, pc, period_from, period_to, data, idx, results, rates, sent,
                  received, outcome, filterLog, tz >>

----------------------------------------------------------------------------
(* Consumption *)

\* lines 346-351
ProcessConsumption(item) ==
  [ consumption |-> item.consumption,
    interval_start |-> ParseUtc(item.interval_start),
    interval_end |-> ParseUtc(item.interval_end) ]

\* lines 217 / 259 without the test of interval_end
InWindowStartOnly(item, pfrom, pto) == item.interval_start >= pfrom

\* lines 217 / 259
InWindow(item, pfrom, pto) == item.interval_start >= pfrom /\ item.interval_end <= pto

\* lines 212-218 / 254-260: the for loop over the raw items
RECURSIVE FilterConsumption(_, _, _)
FilterConsumption(raw, pfrom, pto) ==
  IF raw = << >> THEN << >>
  ELSE LET item == ProcessConsumption(Head(raw))
           rest == FilterConsumption(Tail(raw), pfrom, pto)
       IN IF InWindow(item, pfrom, pto) THEN << item >> \o rest ELSE rest

\* __get_interval_end as the sort key
IntervalEndLess(a, b) == a.interval_end < b.interval_end

RECURSIVE InsertConsumption(_, _)
InsertConsumption(s, x) ==
  IF s = << >> THEN << x >>
  ELSE IF IntervalEndLess(x, s[Len(s)])
       THEN Append(InsertConsumption(SubSeq(s, 1, Len(s) - 1), x), s[Len(s)])
       ELSE Append(s, x)

\* lines 220 / 262: results.sort(key=self.__get_interval_end)
RECURSIVE SortConsumption(_)
SortConsumption(rs) ==
  IF rs = << >> THEN << >>
  ELSE InsertConsumption(SortConsumption(SubSeq(rs, 1, Len(rs) - 1)), rs[Len(rs)])

RawItem(c, s, e) == [ consumption |-> c, interval_start |-> s, interval_end |-> e ]

\* raw items before, inside, across the ends of and after the window
\* [1800, 5400], the fifth one written with the offset +01:00
ConsumptionItems ==
  { RawItem(1, Str(0, 0), Str(1800, 0)),
    RawItem(2, Str(1800, 0), Str(3600, 0)),
    RawItem(3, Str(3600, 0), Str(5400, 0)),
    RawItem(4, Str(5400, 0), Str(7200, 0)),
    RawItem(5, Str(5400, 3600), Str(7200, 3600)),
    RawItem(6, Str(900, 0), Str(2700, 0)),
    RawItem(7, Str(3600, 0), Str(7200, 0)) }
ConsumptionBodies ==
  { Malformed, RestBody(FALSE, << >>) }
    \cup { RestBody(TRUE, l) : l \in SeqsUpTo(ConsumptionItems, MaxConsumption) }
ConsumptionResponses ==
  { r \in Responses(ConsumptionBodies) :
      r.status >= ServerErrorStatus => Len(r.body.results) <= 1 }

\* lines 202-205
GetElectricityConsumptionSend ==
  /\ pc = "call" /\ op = "async_get_electricity_consumption"
  /\ sent' = Append(sent, "electricity_consumption")
  /\ pc' = "electricity_consumption_wait"
  /\ NormaliserUnchanged
  /\ UNCHANGED << op, period_from, period_to, data, idx, results, rates, received,
                  outcome, filterLog, tz, nowPast >>

\* lines 246-249
GetGasConsumptionSend ==
  /\ pc = "call" /\ op = "async_get_gas_consumption"
  /\ sent' = Append(sent, "gas_consumption")
  /\ pc' = "gas_consumption_wait"
  /\ NormaliserUnchanged
  /\ UNCHANGED << op, period_from, period_to, data, idx, results, rates, received,
                  outcome, filterLog, tz, nowPast >>

\* lines 207-223 / 250-265
ConsumptionResponse(req) ==
  \E response \in ConsumptionResponses :
    LET read == AsyncReadResponse(response, Url(req), DefaultResults)
        kept == SortConsumption(FilterConsumption(read.value.results, period_from, period_to))
    IN /\ received' = Append(received, Received(req, response, read))
       /\ IF read.raised
          THEN outcome' = Raised(read.url) /\ UNCHANGED << data, results >>
          ELSE IF read.value.has_results
          THEN /\ outcome' = Returned(RetList(kept))
               /\ results' = kept
               /\ data' = read.value
          ELSE outcome' = Returned(RetNone) /\ data' = read.value /\ UNCHANGED results
       /\ pc' = "done"
       /\ NormaliserUnchanged
       /\ UNCHANGED << op, period_from, period_to, idx, rates, sent, filterLog, tz,
                       nowPast >>

GetElectricityConsumptionResponse ==
  pc = "electricity_consumption_wait" /\ ConsumptionResponse("electricity_consumption")

GetGasConsumptionResponse ==
  pc = "gas_consumption_wait" /\ ConsumptionResponse("gas_consumption")

----------------------------------------------------------------------------
(* Products and standing charges *)

Product(code) == [ code |-> code ]
ProductBodies ==
  { Malformed, RestBody(FALSE, << >>), RestBody(TRUE, << >>),
    RestBody(TRUE, << Product("AGILE-22-07-22"), Product("VAR-22-11-01") >>) }

Charge(exc, inc) == [ value_exc_vat |-> exc, value_inc_vat |-> inc ]
ChargeBodies ==
  { Malformed, RestBody(FALSE, << >>), RestBody(TRUE, << >>),
    RestBody(TRUE, << Charge(20, 21) >>),
    RestBody(TRUE, << Charge(30, 31), Charge(20, 21) >>) }

\* lines 269-272
GetProductsSend ==
  /\ pc = "call" /\ op = "async_get_products"
  /\ sent' = Append(sent, "products")
  /\ pc' = "products_wait"
  /\ NormaliserUnchanged
  /\ UNCHANGED << op, period_from, period_to, data, idx, results, rates, received,
                  outcome, filterLog, tz, nowPast >>

\* lines 273-277
GetProductsResponse ==
  /\ pc = "products_wait"
  /\ \E response \in Responses(ProductBodies) :
       LET read == AsyncReadResponse(response, Url("products"), DefaultResults)
       IN /\ received' = Append(received, Received("products", response, read))
          /\ outcome' = IF read.raised THEN Raised(read.url)
                        ELSE IF read.value.has_results THEN Returned(RetList(read.value.results))
                        ELSE Returned(RetList(<< >>))
  /\ pc' = "done"
  /\ NormaliserUnchanged
  /\ UNCHANGED << op, period_from, period_to, data, idx, results, rates, sent,
                  filterLog, tz, nowPast >>

\* lines 284-288
GetElectricityStandingChargeSend ==
  /\ pc = "call" /\ op = "async_get_electricity_standing_charge"
  /\ sent' = Append(sent, "electricity_standing_charges")
  /\ pc' = "electricity_charge_wait"
  /\ NormaliserUnchanged
  /\ UNCHANGED << op, period_from, period_to, data, idx, results, rates, received,
                  outcome, filterLog, tz, nowPast >>

\* lines 307-311
GetGasStandingChargeSend ==
  /\ pc = "call" /\ op = "async_get_gas_standing_charge"
  /\ sent' = Append(sent, "gas_standing_charges")
  /\ pc' = "gas_charge_wait"
  /\ NormaliserUnchanged
  /\ UNCHANGED << op, period_from, period_to, data, idx, results, rates, received,
                  outcome, filterLog, tz, nowPast >>

\* lines 289-300 / 312-323
StandingChargeResponse(req) ==
  \E response \in Responses(ChargeBodies) :
    LET read == AsyncReadResponse(response, Url(req), DefaultResults)
    IN /\ received' = Append(received, Received(req, response, read))
       /\ outcome' = IF read.raised THEN Raised(read.url)
                     ELSE IF read.value.has_results /\ Len(read.value.results) > 0
                     THEN Returned(RetCharge(read.value.results[1]))
                     ELSE Returned(RetNone)
       /\ pc' = "done"
       /\ NormaliserUnchanged
       /\ UNCHANGED << op, period_from, period_to, data, idx, results, rates, sent,
                       filterLog, tz, nowPast >>

GetElectricityStandingChargeResponse ==
  pc = "electricity_charge_wait" /\ StandingChargeResponse("electricity_standing_charges")

GetGasStandingChargeResponse ==
  pc = "gas_charge_wait" /\ StandingChargeResponse("gas_standing_charges")

----------------------------------------------------------------------------
(* The client: one call of one public operation *)

RateOps ==
  { "async_get_electricity_standard_rates", "async_get_gas_rates" }
DayNightOps ==
  { "async_get_electricity_day_night_rates", "async_get_electricity_rates" }
ConsumptionOps ==
  { "async_get_electricity_consumption", "async_get_gas_consumption" }
ChargeOps ==
  { "async_get_electricity_standing_charge", "async_get_gas_standing_charge" }
OtherOps == { "async_get_account", "async_get_products" }
Ops == RateOps \cup DayNightOps \cup ConsumptionOps \cup ChargeOps \cup OtherOps

\* the state when a public operation of a constructed client is called
Init ==
  /\ op \in Ops
  /\ pc = "call"
  /\ \/ /\ op \in RateOps \cup ChargeOps \cup OtherOps
        /\ period_from \in PeriodFroms /\ period_to \in PeriodTos
        /\ tz = NoTz /\ nowPast = FALSE
     \/ /\ op \in ConsumptionOps
        /\ period_from = 1800 /\ period_to = 5400
        /\ tz = NoTz /\ nowPast = FALSE
     \/ /\ op \in DayNightOps
        /\ period_from = 0 /\ period_to = 2 * SecondsPerDay
        /\ tz \in TzChoices
        /\ nowPast \in (IF tz.before = tz.after THEN { FALSE } ELSE BOOLEAN)
  /\ data = NoneValue
  /\ items = << >>
  /\ idx = 0
  /\ starting_period_from = period_from
  /\ valid_from = period_from
  /\ target_date = period_to
  /\ results = << >>
  /\ rates = << >>
  /\ sent = << >>
  /\ received = << >>
  /\ outcome = NoOutcome
  /\ filterLog = << >>

Next ==
  \/ GetAccountPostToken
  \/ GetAccountTokenResponse
  \/ GetAccountAccountResponse
  \/ GetElectricityRatesDispatch
  \/ GetStandardRatesSend
  \/ GetStandardRatesResponse
  \/ GetGasRatesSend
  \/ GetGasRatesResponse
  \/ GetDayNightRatesSendDay
  \/ GetDayNightRatesDayResponse
  \/ GetDayNightRatesDayFilter
  \/ GetDayNightRatesSendNight
  \/ GetDayNightRatesNightResponse
  \/ GetDayNightRatesNightFilter
  \/ GetDayNightRatesReturn
  \/ ClockPassesSwitch
  \/ GetElectricityConsumptionSend
  \/ GetElectricityConsumptionResponse
  \/ GetGasConsumptionSend
  \/ GetGasConsumptionResponse
  \/ GetProductsSend
  \/ GetProductsResponse
  \/ GetElectricityStandingChargeSend
  \/ GetElectricityStandingChargeResponse
  \/ GetGasStandingChargeSend
  \/ GetGasStandingChargeResponse

Spec == Init /\ [][Next]_vars

----------------------------------------------------------------------------
(* Properties of the client *)

IsServerError(r) == r.status >= ServerErrorStatus

\* the call went down the day/night path (directly or by dispatch)
IsDayNightCall == Len(sent) >= 1 /\ sent[1] = "day_unit_rates"

LocalTimeOfDay(t) == (t + LocalOffset(t)) % SecondsPerDay

InTargetTimes(e) ==
  /\ e.kind = "day" =>
       (DayFromTime <= LocalTimeOfDay(e.valid_from) /\ LocalTimeOfDay(e.valid_from) <= DayToTime)
  /\ e.kind = "night" =>
       (NightFromTime <= LocalTimeOfDay(e.valid_from) /\ LocalTimeOfDay(e.valid_from) < NightToTime)

\* C3 as stated: every interval kept from the day response starts, in local
\* wall-clock time, within [07:00:00, 23:59:59] and every interval kept from the
\* night response within [00:00:00, 07:00:00), whatever the UTC offset in force
\* at the interval and the UTC offset of now() when it is filtered.
C3_LocalTimesAnyOffset ==
  \A i \in 1..Len(filterLog) : filterLog[i].kept => InTargetTimes(filterLog[i])

\* C3 amended: the same, for every interval at whose start the UTC offset in
\* force equals the UTC offset of now() at the time the interval is filtered.
C3_LocalTimesSameOffset ==
  \A i \in 1..Len(filterLog) :
    (filterLog[i].kept /\ LocalOffset(filterLog[i].valid_from) = filterLog[i].now_offset)
      => InTargetTimes(filterLog[i])

\* in a zone that switches its offset, a call has returned after keeping a day
\* interval that starts at 07:00:00 local time and a night interval, each
\* filtered under the offset in force at its start
C3_Witness ==
  /\ IsDayNightCall
  /\ outcome.kind = "return"
  /\ tz.before # tz.after
  /\ \E i, j \in 1..Len(filterLog) :
       /\ filterLog[i].kind = "day" /\ filterLog[i].kept
       /\ LocalOffset(filterLog[i].valid_from) = filterLog[i].now_offset
       /\ LocalTimeOfDay(filterLog[i].valid_from) = DayFromTime
       /\ filterLog[j].kind = "night" /\ filterLog[j].kept
       /\ LocalOffset(filterLog[j].valid_from) = filterLog[j].now_offset
       /\ filterLog[j].now_offset # 0

StrictlyIncreasing(l) ==
  \A i \in 1..(Len(l) - 1) : l[i].valid_from < l[i + 1].valid_from

\* C4 as stated: the list async_get_electricity_day_night_rates returns is
\* strictly increasing in valid_from; no two of its intervals share a valid_from.
C4_StrictlyIncreasing ==
  (IsDayNightCall /\ outcome.kind = "return") => StrictlyIncreasing(outcome.value.list)

\* C4 amended: when now() has the same UTC offset at every filtering of the
\* call, the list returned is strictly increasing in valid_from.
C4_StrictlyIncreasingSameNow ==
  ( /\ IsDayNightCall
    /\ outcome.kind = "return"
    /\ \A i, j \in 1..Len(filterLog) : filterLog[i].now_offset = filterLog[j].now_offset )
  => StrictlyIncreasing(outcome.value.list)

\* a call has returned a list in which a night interval precedes a day interval
\* that was kept before it, all filtered under one offset of now()
C4_Witness ==
  /\ IsDayNightCall
  /\ outcome.kind = "return"
  /\ \A i, j \in 1..Len(filterLog) : filterLog[i].now_offset = filterLog[j].now_offset
  /\ \E i, j \in 1..Len(filterLog) :
       /\ filterLog[i].kind = "day" /\ filterLog[i].kept
       /\ filterLog[j].kind = "night" /\ filterLog[j].kept
       /\ filterLog[j].valid_from < filterLog[i].valid_from
  /\ Len(outcome.value.list) >= 4

CountIn(l, x) == Cardinality({ i \in 1..Len(l) : l[i] = x })
Range(l) == { l[i] : i \in 1..Len(l) }
Converted(raw) == [ i \in 1..Len(raw) |-> ProcessConsumption(raw[i]) ]

\* the server answered a consumption request with a body that was decoded and
\* holds a "results" list
ConsumptionAnswered ==
  /\ op \in ConsumptionOps
  /\ pc = "done"
  /\ received[1].decoded
  /\ received[1].body.kind = "json"
  /\ received[1].body.has_results

\* C5: for every list of raw items the server returns, the list returned by
\* async_get_electricity_consumption and async_get_gas_consumption holds exactly
\* the items with interval_start >= period_from and interval_end <= period_to,
\* in ascending order of interval_end.
C5_ConsumptionFilter ==
  ConsumptionAnswered =>
    LET raw == Converted(received[1].body.results)
        out == outcome.value.list
    IN /\ outcome.kind = "return" /\ outcome.value.type = "list"
       /\ \A x \in Range(raw) \cup Range(out) :
            CountIn(out, x) =
              IF x.interval_start >= period_from /\ x.interval_end <= period_to
              THEN CountIn(raw, x) ELSE 0
       /\ \A i \in 1..(Len(out) - 1) : out[i].interval_end <= out[i + 1].interval_end

\* of three raw items one lies across the end of the window and is dropped, and
\* the two kept, one of them written with the offset +01:00, were put in order
C5_Witness ==
  /\ ConsumptionAnswered
  /\ Len(received[1].body.results) = 3
  /\ Len(outcome.value.list) = 2
  /\ outcome.value.list[1] = ProcessConsumption(received[1].body.results[3])
  /\ received[1].body.results[3].interval_start.off # 0
  /\ outcome.value.list[2] = ProcessConsumption(received[1].body.results[1])

\* the empty default of an operation
DefaultOf(o) ==
  IF o \in ChargeOps \cup { "async_get_account" } THEN RetNone ELSE RetList(<< >>)

\* C6 as stated: whenever a request of an operation is answered with a status
\* >= 500, the operation raises nothing and returns its empty default, and the
\* body of that response is never decoded.
C6_SoftFailureAnyRequest ==
  /\ \A i \in 1..Len(received) : IsServerError(received[i]) => ~received[i].decoded
  /\ (pc = "done" /\ \E i \in 1..Len(received) : IsServerError(received[i]))
       => outcome = Returned(DefaultOf(op))

\* C6 amended: the body of a response with a status >= 500 is never decoded and
\* that response adds no interval to the result; the operation raises nothing and
\* returns its empty default whenever one of its requests is answered with a
\* status >= 500, except in async_get_electricity_day_night_rates, where this
\* holds when both requests are so answered (otherwise the other response
\* decides the result).
C6_SoftFailure ==
  /\ \A i \in 1..Len(received) : IsServerError(received[i]) => ~received[i].decoded
  /\ \A i \in 1..Len(filterLog) :
       /\ filterLog[i].kind = "day" => ~IsServerError(received[1])
       /\ filterLog[i].kind = "night" => ~IsServerError(received[2])
  /\ ( /\ pc = "done"
       /\ \E i \in 1..Len(received) : IsServerError(received[i])
       /\ IsDayNightCall => \A i \in 1..Len(received) : IsServerError(received[i]) )
     => outcome = Returned(DefaultOf(op))

\* a day/night call whose two requests were answered with 500 and 503 has
\* returned the empty list
C6_Witness ==
  /\ IsDayNightCall
  /\ pc = "done"
  /\ Len(received) = 2
  /\ received[1].status = 500
  /\ received[2].status = 503
  /\ outcome = Returned(RetList(<< >>))

\* C7: whenever a request of an operation is answered with a status below 500
\* and a body that is not JSON, the operation ends by raising an error that
\* carries the URL of that request, and returns no value.
C7_HardFailure ==
  \A i \in 1..Len(received) :
    (~IsServerError(received[i]) /\ received[i].body.kind = "malformed")
      => /\ pc = "done"
         /\ outcome.kind = "raise"
         /\ outcome.url = Url(received[i].req)

\* a day/night call that had kept day intervals raised on a night response
\* that is not JSON
C7_Witness ==
  /\ IsDayNightCall
  /\ Len(received) = 2
  /\ Len(results) >= 1
  /\ received[2].status = 404
  /\ received[2].body.kind = "malformed"
  /\ outcome = Raised(Url("night_unit_rates"))

\* a decoded response of the account path that lacks an expected field
LacksExpectedField(r) ==
  /\ ~IsServerError(r)
  /\ r.body.kind = "json"
  /\ \/ r.body.data = "absent"
     \/ /\ r.body.data = "obj"
        /\ r.req = "token"
        /\ (r.body.token_obj \in { "absent", "null" } \/ r.body.token \in { "absent", "null" })
     \/ /\ r.body.data = "obj"
        /\ r.req = "account"
        /\ r.body.account \in { "absent", "null" }

\* C8: in async_get_account, whenever the token response or the account
\* response is well-formed JSON but lacks an expected field, the operation
\* returns None and raises nothing.
C8_MissingFieldReturnsNone ==
  ( /\ op = "async_get_account"
    /\ pc = "done"
    /\ \E i \in 1..Len(received) : LacksExpectedField(received[i]) )
  => outcome = Returned(RetNone)

\* C9: the account query is sent only after the token response has been read
\* and has yielded a token; the night request is sent only after the day
\* response has been read and its rates filtered; no request is sent twice.
C9_RequestOrdering ==
  /\ (\E i \in 1..Len(sent) : sent[i] = "account") =>
       /\ Len(received) >= 1
       /\ received[1].req = "token"
       /\ received[1].decoded
       /\ received[1].body.kind = "json"
       /\ received[1].body.token = "jwt"
  /\ (\E i \in 1..Len(sent) : sent[i] = "night_unit_rates") =>
       /\ Len(received) >= 1
       /\ received[1].req = "day_unit_rates"
       /\ pc # "day_filter"
  /\ \A i, j \in 1..Len(sent) : i # j => sent[i] # sent[j]

\* the parts of C9 that do not depend on the token: the account query follows
\* a token response that was read, the night request follows the filtering of
\* the day rates, no request is sent twice and none is sent after the call ended
RequestOrderingApartFromToken ==
  /\ (\E i \in 1..Len(sent) : sent[i] = "account") =>
       /\ Len(received) >= 1
       /\ received[1].req = "token"
       /\ received[1].decoded
       /\ HasData(received[1].body)
  /\ (\E i \in 1..Len(sent) : sent[i] = "night_unit_rates") =>
       /\ Len(received) >= 1
       /\ received[1].req = "day_unit_rates"
       /\ pc # "day_filter"
  /\ \A i, j \in 1..Len(sent) : i # j => sent[i] # sent[j]
  /\ Len(sent) <= 2
  /\ Len(received) <= Len(sent)

====
